---- MODULE Spec2Model ----
(***************************************************************************)
(* Model of NativeAuthenticator (nativeauthenticator.py) and its request   *)
(* handlers (handlers.py), in five specifications over one state:          *)
(*   Spec          the credential check of authenticate() and the          *)
(*                 in-memory failed-login tracker (login_attempts,         *)
(*                 add_login_attempt, can_try_to_login_again, is_blocked,  *)
(*                 successful_login);                                      *)
(*   SpecSignup    create_user with the password policy, the initial       *)
(*                 authorization, the approval mail, and the two ways of   *)
(*                 deleting a record;                                      *)
(*   SpecApproval  construction with a signing secret, the signed          *)
(*                 approval URL and the /confirm/ handler;                 *)
(*   SpecRace      POST /signup requests in flight at the same time;       *)
(*   SpecLifecycle an account from signup through the approval mail,       *)
(*                 /confirm/, the admin's change of authorization and      *)
(*                 /discard/.                                              *)
(*                                                                         *)
(* Time is the wall clock read by datetime.now(), in whole seconds since   *)
(* the authenticator was constructed.  Tornado runs every handler on one   *)
(* event loop and authenticate() contains no yield, so each call is one    *)
(* atomic step.                                                            *)
(***************************************************************************)
EXTENDS Integers, FiniteSets, Sequences, TLC

\* ---------------------------------------------------------------- bounds
\* Number of whole days the clock is advanced over.
MaxDays == 1
\* Largest failure count an entry is driven to.
MaxCount == 3
\* Largest allowed_failed_logins setting explored.
MaxAllowed == 2

\* ------------------------------------------------------------- constants
\* datetime.timedelta normalises to (days, seconds, microseconds) with
\* 0 <= seconds < 86400; `.seconds` is that middle component only.
SecondsPerDay == 86400
\* Default of the seconds_before_next_try trait.
DefaultSecondsBeforeNextTry == 600

\* ---------------------------------------------------------------- inputs
\* Usernames as typed by a client, and their normal forms.
RawUsernames == {"alice", "Alice", "bob"}
Usernames == {"alice", "bob"}
Passwords == {"pw1", "pw2"}
\* One-time codes a client can send ("none": no '2fa' field in the form).
Codes == {"123456", "000000", "none"}
\* Values of seconds_before_next_try explored.
SecondsChoices == {0, DefaultSecondsBeforeNextTry}

VARIABLES
    users,                    \* users_info table: username -> record
    login_attempts,           \* self.login_attempts: username -> entry
    now,                      \* datetime.now()
    allowed_failed_logins,    \* configuration trait
    seconds_before_next_try,  \* configuration trait
    result,                   \* value returned by the last authenticate()
    last,                     \* history: the last call and the path it took
    failures,                 \* history: failures recorded per username
                              \* since its last successful_login
    open_signup,              \* configuration trait
    enable_signup,            \* configuration trait
    allow_self_approval_for,  \* configuration trait: a pattern is set
    secret_key,               \* configuration trait
    minimum_password_length,  \* configuration trait
    check_common_password,    \* configuration trait
    admin_users,              \* Authenticator.admin_users
    allowed_users,            \* Authenticator.allowed_users
    init_error,               \* exception raised by __init__, or None
    outbox,                   \* approval URLs handed out, with their issue
                              \* time and validity
    reply,                    \* history: the last signup/approval request
                              \* and how it ended
    requests                  \* POST /signup requests received: waiting
                              \* for the event loop, or answered

\* The state of the signup and approval workflow.
workflow_vars ==
    <<open_signup, enable_signup, allow_self_approval_for, secret_key,
      minimum_password_length, check_common_password, admin_users,
      allowed_users, init_error, outbox, reply, requests>>

\* The state of the failed-login tracker and of authenticate().
login_vars ==
    <<login_attempts, allowed_failed_logins, seconds_before_next_try,
      result, last, failures>>

vars == <<users, login_attempts, now, allowed_failed_logins,
          seconds_before_next_try, result, last, failures, workflow_vars>>

\* Return value None of authenticate().
None == "None"

\* ------------------------------------------------------- helper functions
\* Authenticator.normalize_username: lower-cases the name.
normalize_username(raw) ==
    CASE raw = "Alice" -> "alice"
      [] OTHER -> raw

\* Stored form of a password (bcrypt.hashpw).
hashpw(pw) == <<"bcrypt", pw>>

\* UserInfo.is_valid_password: the candidate hashes to the stored hash.
is_valid_password(user, password) == hashpw(password) = user.password

\* UserInfo.is_valid_token: the code is the user's current one-time code.
is_valid_token(user, code) == code = user.otp_code

\* UserInfo.find / get_user: the record, if any, under the normal form.
user_exists(username) == normalize_username(username) \in DOMAIN users
get_user(username) == users[normalize_username(username)]

\* timedelta.seconds of a non-negative difference of two datetimes.
timedelta_seconds(delta) == delta % SecondsPerDay

\* dict.get(username) is not None
has_attempts(username) == username \in DOMAIN login_attempts

\* Variant of can_try_to_login_again: the window ends one second early (>=).
can_try_to_login_again_early(username) ==
    IF ~has_attempts(username)
    THEN TRUE
    ELSE timedelta_seconds(now - login_attempts[username].time)
             >= seconds_before_next_try

can_try_to_login_again(username) ==
    IF ~has_attempts(username)
    THEN TRUE
    ELSE timedelta_seconds(now - login_attempts[username].time)
             > seconds_before_next_try

\* Variant of is_blocked: the threshold is compared with <= instead of <.
is_blocked_late(username) ==
    IF ~has_attempts(username)
          \/ login_attempts[username].count <= allowed_failed_logins
    THEN FALSE
    ELSE ~can_try_to_login_again(username)

is_blocked(username) ==
    IF ~has_attempts(username)
          \/ login_attempts[username].count < allowed_failed_logins
    THEN FALSE
    ELSE ~can_try_to_login_again(username)

\* Variant of add_login_attempt: an existing entry gets the new time but
\* its count is not incremented.
add_login_attempt_same_count(username) ==
    IF ~has_attempts(username)
    THEN [u \in DOMAIN login_attempts \cup {username} |->
             IF u = username THEN [count |-> 1, time |-> now]
                             ELSE login_attempts[u]]
    ELSE [login_attempts EXCEPT
             ![username] = [count |-> @.count, time |-> now]]

\* Variant of add_login_attempt: an entry whose window has elapsed is
\* started again at count 1.
add_login_attempt_restart(username) ==
    IF ~has_attempts(username) \/ can_try_to_login_again(username)
    THEN [u \in DOMAIN login_attempts \cup {username} |->
             IF u = username THEN [count |-> 1, time |-> now]
                             ELSE login_attempts[u]]
    ELSE [login_attempts EXCEPT
             ![username] = [count |-> @.count + 1, time |-> now]]

\* login_attempts after add_login_attempt(username)
add_login_attempt(username) ==
    IF ~has_attempts(username)
    THEN [u \in DOMAIN login_attempts \cup {username} |->
             IF u = username THEN [count |-> 1, time |-> now]
                             ELSE login_attempts[u]]
    ELSE [login_attempts EXCEPT
             ![username] = [count |-> @.count + 1, time |-> now]]

\* Variant of successful_login: the entry is kept.
successful_login_keep(username) == login_attempts

\* Variant of successful_login: the whole dict is cleared.
successful_login_clear_all(username) ==
    [u \in {} |-> login_attempts[u]]

\* login_attempts after successful_login(username)
successful_login(username) ==
    [u \in DOMAIN login_attempts \ {username} |-> login_attempts[u]]

\* Variant of validations: user.is_authorized is left out of the list.
validations_unauthorized(user, password, code) ==
    /\ is_valid_password(user, password)
    /\ (user.has_2fa => is_valid_token(user, code))

\* Variant of validations: the one-time code is never appended.
validations_no_2fa(user, password, code) ==
    /\ user.is_authorized
    /\ is_valid_password(user, password)

\* The list `validations` of authenticate(), as its conjunction all(...).
validations(user, password, code) ==
    /\ user.is_authorized
    /\ is_valid_password(user, password)
    /\ (user.has_2fa => is_valid_token(user, code))

\* Variant of authenticate_path: the lockout check is skipped.
authenticate_path_unblocked(raw, password, code) ==
    LET username == normalize_username(raw) IN
    IF ~user_exists(username) THEN "no_user"
    ELSE IF validations(get_user(username), password, code) THEN "accept"
    ELSE "failed"

\* Path taken by authenticate(): which return statement is reached.
authenticate_path(raw, password, code) ==
    LET username == normalize_username(raw) IN
    IF ~user_exists(username) THEN "no_user"
    ELSE IF allowed_failed_logins # 0 /\ is_blocked(username) THEN "blocked"
    ELSE IF validations(get_user(username), password, code) THEN "accept"
    ELSE "failed"

\* Value returned by authenticate(): the username, or None.
authenticate_result(raw, password, code) ==
    IF authenticate_path(raw, password, code) = "accept"
    THEN normalize_username(raw)
    ELSE None

\* login_attempts after authenticate().
authenticate_attempts(raw, password, code) ==
    LET username == normalize_username(raw)
        path == authenticate_path(raw, password, code)
    IN  CASE path = "accept" -> successful_login(username)
          [] path = "failed" -> add_login_attempt(username)
          [] OTHER -> login_attempts

\* Number of failures in the entry of username (0: no entry).
CountOf(username) ==
    IF has_attempts(username) THEN login_attempts[username].count ELSE 0

\* ------------------------------------------------------------------ Init
\* The users_info table outlives the process: construction finds whatever
\* accounts were created before.  alice signed up, with or without 2FA,
\* and may or may not have been authorized; bob never signed up.
InitialStores ==
    { [u \in {"alice"} |->
          [password |-> hashpw("pw1"), is_authorized |-> a,
           has_2fa |-> f, otp_code |-> IF f THEN "123456" ELSE "none",
           email |-> ""]]
      : a \in BOOLEAN, f \in BOOLEAN }

\* History record of a step: the call, the username it was about, the path
\* authenticate() took, whether the password matched and (with 2FA) the
\* one-time code matched too, the failure count of the username before the
\* call, and whether the call directly follows a successful_login that
\* removed an entry of the same username.
Call(op, username, path, pw_ok, before, after_clear) ==
    [op |-> op, username |-> username, path |-> path, pw_ok |-> pw_ok,
     before |-> before, after_clear |-> after_clear]

NoCall(op) == Call(op, "none", "none", FALSE, 0, FALSE)

\* History record of a signup/approval request: the request, the username
\* it was about, how it ended, the slug it carried (kept for handed-out
\* slugs only), whether that slug was a handed-out one with one symbol
\* changed, and whether the request changed the users_info table.
Reply(op, username, outcome, slug, tampered, changed) ==
    [op |-> op, username |-> username, outcome |-> outcome,
     slug |-> slug, tampered |-> tampered, changed |-> changed]

NoReply(op) == Reply(op, "none", "none", <<>>, FALSE, FALSE)

\* The traits of the signup and approval workflow at their defaults.
DefaultWorkflow ==
    /\ open_signup = FALSE
    /\ enable_signup = TRUE
    /\ allow_self_approval_for = FALSE
    /\ secret_key = ""
    /\ minimum_password_length = 1
    /\ check_common_password = FALSE
    /\ admin_users = {}
    /\ allowed_users = {}
    /\ init_error = None
    /\ outbox = {}
    /\ reply = NoReply("init")
    /\ requests = {}

Init ==
    /\ DefaultWorkflow
    /\ users \in InitialStores
    /\ login_attempts = <<>>
    /\ now = 0
    /\ allowed_failed_logins \in 0..MaxAllowed
    /\ seconds_before_next_try \in SecondsChoices
    /\ result = None
    /\ last = NoCall("init")
    /\ failures = [u \in Usernames |-> 0]

\* --------------------------------------------------------------- actions
\* Clock readings explored: the start of a lockout window, its last
\* second, the first second after it, and whole days after the start.
Times ==
    {0, seconds_before_next_try, seconds_before_next_try + 1}
        \cup { days * SecondsPerDay : days \in 1..MaxDays }

\* The clock advances between calls.
Tick(t) ==
    /\ t > now
    /\ now' = t
    /\ last' = NoCall("tick")
    /\ UNCHANGED <<users, login_attempts, allowed_failed_logins,
                   seconds_before_next_try, result, failures,
                   workflow_vars>>

\* The step follows a successful_login that removed an entry of username.
AfterClear(username) ==
    /\ \/ last.op = "successful_login"
       \/ last.op = "authenticate" /\ last.path = "accept"
    /\ last.username = username
    /\ last.before > 0

\* authenticate(handler, data) with data = {username, password, 2fa}.
Authenticate(raw, password, code) ==
    LET username == normalize_username(raw)
        path == authenticate_path(raw, password, code)
    IN  /\ path = "failed" => CountOf(username) < MaxCount
        /\ login_attempts' = authenticate_attempts(raw, password, code)
        /\ result' = authenticate_result(raw, password, code)
        /\ last' = Call("authenticate", username, path,
                        IF user_exists(username)
                        THEN /\ is_valid_password(get_user(username),
                                                  password)
                             /\ get_user(username).has_2fa =>
                                    is_valid_token(get_user(username), code)
                        ELSE FALSE,
                        CountOf(username),
                        path = "failed" /\ AfterClear(username))
        /\ failures' = CASE path = "accept" ->
                               [failures EXCEPT ![username] = 0]
                         [] path = "failed" ->
                               [failures EXCEPT ![username] = @ + 1]
                         [] OTHER -> failures
        /\ UNCHANGED <<users, now, allowed_failed_logins,
                       seconds_before_next_try, workflow_vars>>

\* A direct call of add_login_attempt(username) (LockoutTracker.RecordFailure).
AddLoginAttempt(username) ==
    /\ CountOf(username) < MaxCount
    /\ login_attempts' = add_login_attempt(username)
    /\ last' = Call("add_login_attempt", username, "none", FALSE,
                    CountOf(username), AfterClear(username))
    /\ failures' = [failures EXCEPT ![username] = @ + 1]
    /\ UNCHANGED <<users, now, allowed_failed_logins,
                   seconds_before_next_try, result, workflow_vars>>

\* A direct call of successful_login(username) (LockoutTracker.ClearOnSuccess).
SuccessfulLogin(username) ==
    /\ login_attempts' = successful_login(username)
    /\ last' = Call("successful_login", username, "none", FALSE,
                    CountOf(username), FALSE)
    /\ failures' = [failures EXCEPT ![username] = 0]
    /\ UNCHANGED <<users, now, allowed_failed_logins,
                   seconds_before_next_try, result, workflow_vars>>

Next ==
    \/ \E t \in Times : Tick(t)
    \/ \E raw \in RawUsernames, password \in Passwords, code \in Codes :
           Authenticate(raw, password, code)
    \/ \E username \in Usernames : AddLoginAttempt(username)
    \/ \E username \in Usernames : SuccessfulLogin(username)

Spec == Init /\ [][Next]_vars

\* ------------------------------------------------- signed approval URL
\* timedelta(minutes=15) of generate_approval_url, in seconds.
ApprovalSeconds == 900
\* Shortest secret_key setup_self_approval accepts.
MinSecretLength == 8
\* Number of approval URLs handed out.
MaxUrls == 1

\* Values of secret_key explored (7, 8 and 9 characters).
Secrets == {"1234567", "12345678", "123456789"}
\* Validities of a URL explored: `when` is now plus one of these.
Validities == {1, ApprovalSeconds}
\* Clock readings explored around the two expiry times.
ApprovalTimes == {0, 1, ApprovalSeconds, ApprovalSeconds + 1}
\* Expiry times a forger writes into a slug: one long past, the default
\* one and one far ahead.
ForgedExpiries == {1, ApprovalSeconds, ApprovalSeconds + ApprovalSeconds}

\* datetime.isoformat() and datetime.fromisoformat(): the text of a time
\* and the time of a text.
isoformat(t) == <<"iso", t>>
fromisoformat(text) == text[2]

\* Signer.sep
Separator == <<":">>

\* Variant of signature: only the username part of the value is signed.
signature_username_only(key, value) ==
    <<"hmac", key, IF Len(value) >= 1 THEN <<value[1]>> ELSE <<>>>>

\* Signer(key).signature(value): the keyed hash of the serialized value.
signature(key, value) == <<"hmac", key, value>>

\* The serialized payload of sign_object: one symbol per JSON member.
dumps(obj) == << <<"username", obj.username>>, <<"expire", obj.expire>> >>
loads(value) == [username |-> value[1][2], expire |-> value[2][2]]

\* Whether loads can decode the value; it raises a decoding error (not a
\* BadSignature) otherwise.
decodable(value) ==
    /\ Len(value) = 2
    /\ value[1][1] = "username"
    /\ value[2][1] = "expire"

\* Signer(key).sign_object(obj): value, separator, signature.
sign_object(key, obj) ==
    dumps(obj) \o <<Separator, signature(key, dumps(obj))>>

\* Signer(key).unsign_object(slug): split at the last separator, compare
\* the signature of the value part, then decode the value.
unsign_object(key, slug) ==
    LET seps == {i \in 1..Len(slug) : slug[i] = Separator} IN
    IF seps = {}
    THEN [error |-> "BadSignature", obj |-> [username |-> "none",
                                            expire |-> isoformat(0)]]
    ELSE LET i == CHOOSE j \in seps : \A k \in seps : k <= j
             value == SubSeq(slug, 1, i - 1)
             sig == SubSeq(slug, i + 1, Len(slug))
         IN  IF sig = <<signature(key, value)>> /\ ~decodable(value)
             THEN [error |-> "DecodeError",
                   obj |-> [username |-> "none", expire |-> isoformat(0)]]
             ELSE IF sig = <<signature(key, value)>>
             THEN [error |-> None, obj |-> loads(value)]
             ELSE [error |-> "BadSignature",
                   obj |-> [username |-> "none", expire |-> isoformat(0)]]

\* Variant of validate_slug: a URL expires at its expiry time (>=).
validate_slug_strict(slug, key) ==
    LET r == unsign_object(key, slug) IN
    IF r.error # None
    THEN [error |-> r.error, username |-> "none", expire |-> 0]
    ELSE IF now >= fromisoformat(r.obj.expire)
    THEN [error |-> "expired", username |-> "none", expire |-> 0]
    ELSE [error |-> None, username |-> r.obj.username,
          expire |-> fromisoformat(r.obj.expire)]

\* AuthorizeHandler.validate_slug(slug, key): the decoded object, or the
\* ValueError raised ("BadSignature": bad signature, "expired").
validate_slug(slug, key) ==
    LET r == unsign_object(key, slug) IN
    IF r.error # None
    THEN [error |-> r.error, username |-> "none", expire |-> 0]
    ELSE IF now > fromisoformat(r.obj.expire)
    THEN [error |-> "expired", username |-> "none", expire |-> 0]
    ELSE [error |-> None, username |-> r.obj.username,
          expire |-> fromisoformat(r.obj.expire)]

\* Route prefix of the URL, and the slug the route hands to the handler.
ConfirmPath == <<"/confirm/">>
SlugOf(url) == Tail(url)

\* Variant of generate_approval_url: Signer() without the secret_key.
generate_approval_url_default_key(username, when) ==
    <<ConfirmPath>> \o sign_object("django-default",
                                   [username |-> username,
                                    expire |-> isoformat(when)])

\* generate_approval_url(username, when)
generate_approval_url(username, when) ==
    <<ConfirmPath>> \o sign_object(secret_key,
                                   [username |-> username,
                                    expire |-> isoformat(when)])

\* Variant of setup_self_approval: a secret of exactly 8 characters is
\* refused too (<=).
setup_self_approval_strict ==
    IF allow_self_approval_for /\ Len(secret_key) <= MinSecretLength
    THEN "ValueError"
    ELSE None

\* setup_self_approval(): the exception it raises, or None.
setup_self_approval ==
    IF allow_self_approval_for /\ Len(secret_key) < MinSecretLength
    THEN "ValueError"
    ELSE None

\* UserInfo.change_authorization(db, username): the table with the
\* is_authorized of username inverted.
change_authorization(username) ==
    [users EXCEPT ![username].is_authorized = ~@]

\* Variant of authorize_get: change_authorization is called whatever
\* usr.is_authorized is.
authorize_get_unguarded(slug) ==
    LET data == validate_slug(slug, secret_key) IN
    IF ~allow_self_approval_for \/ data.error # None
    THEN [outcome |-> "Invalid URL", username |-> "none", users |-> users]
    ELSE IF data.username \notin DOMAIN users
    THEN [outcome |-> "AttributeError", username |-> data.username,
          users |-> users]
    ELSE [outcome |-> "has been authorized", username |-> data.username,
          users |-> change_authorization(data.username)]

\* AuthorizeHandler.get(slug): the message rendered (or the unhandled
\* exception), the username of the slug and the table afterwards.
authorize_get(slug) ==
    LET data == validate_slug(slug, secret_key) IN
    IF ~allow_self_approval_for \/ data.error # None
    THEN [outcome |-> "Invalid URL", username |-> "none", users |-> users]
    ELSE IF data.username \notin DOMAIN users
    THEN [outcome |-> "AttributeError", username |-> data.username,
          users |-> users]
    ELSE IF ~users[data.username].is_authorized
    THEN [outcome |-> "has been authorized", username |-> data.username,
          users |-> change_authorization(data.username)]
    ELSE [outcome |-> "was already authorized", username |-> data.username,
          users |-> users]

\* Symbols a forger puts into a slug (the separator, a username, an
\* expiry time, the signature of some value under some key), and the slugs
\* that differ from a handed-out one in exactly one symbol.
Payloads ==
    { dumps([username |-> u, expire |-> isoformat(e)]) :
          u \in Usernames, e \in ForgedExpiries }
Symbols ==
    {Separator}
        \cup { <<"username", u>> : u \in Usernames }
        \cup { <<"expire", isoformat(e)>> : e \in ForgedExpiries }
        \cup { signature(k, p) : k \in Secrets, p \in Payloads }
Tampered(slug) ==
    UNION { { [slug EXCEPT ![i] = c] : c \in Symbols \ {slug[i]} } :
                i \in 1..Len(slug) }
TamperedSlugs == UNION { Tampered(SlugOf(m.url)) : m \in outbox }

\* The login tracker, idle.
IdleLogin ==
    /\ login_attempts = <<>>
    /\ allowed_failed_logins = 0
    /\ seconds_before_next_try = DefaultSecondsBeforeNextTry
    /\ result = None
    /\ last = NoCall("init")
    /\ failures = [u \in Usernames |-> 0]

\* alice signed up and is pending or authorized; bob never signed up.
ApprovalStores ==
    { [u \in {"alice"} |->
          [password |-> hashpw("pw1"), is_authorized |-> a,
           has_2fa |-> FALSE, otp_code |-> "none",
           email |-> "alice@my-domain.com"]]
      : a \in BOOLEAN }

InitApproval ==
    /\ IdleLogin
    /\ users \in ApprovalStores
    /\ now = 0
    /\ open_signup = FALSE
    /\ enable_signup = TRUE
    /\ allow_self_approval_for \in BOOLEAN
    /\ secret_key \in Secrets
    /\ minimum_password_length = 1
    /\ check_common_password = FALSE
    /\ admin_users = {}
    /\ allowed_users = {}
    /\ init_error = setup_self_approval
    /\ outbox = {}
    /\ reply = NoReply("init")
    /\ requests = {}

\* The traits, which no request changes.
traits ==
    <<open_signup, enable_signup, allow_self_approval_for, secret_key,
      minimum_password_length, check_common_password, admin_users,
      allowed_users, init_error>>

\* The clock advances between requests.
ApprovalTick(t) ==
    /\ init_error = None
    /\ t > now
    /\ now' = t
    /\ reply' = NoReply("tick")
    /\ UNCHANGED <<users, login_vars, requests, traits, outbox>>

\* A call of generate_approval_url(username, when) with when = now + valid_for.
GenerateApprovalUrl(username, valid_for) ==
    /\ init_error = None
    /\ Cardinality(outbox) < MaxUrls
    /\ outbox' = outbox \cup
           {[url |-> generate_approval_url(username, now + valid_for),
             issued |-> now, valid_for |-> valid_for, confirmed |-> FALSE]}
    /\ reply' = Reply("generate_approval_url", username, "none",
                      SlugOf(generate_approval_url(username,
                                                   now + valid_for)),
                      FALSE, FALSE)
    /\ UNCHANGED <<users, now, login_vars, requests, traits>>

\* GET /confirm/<slug> (AuthorizeHandler.get).
Confirm(slug, tampered) ==
    LET r == authorize_get(slug) IN
    /\ init_error = None
    /\ users' = r.users
    /\ outbox' = { IF SlugOf(m.url) = slug
                        /\ r.outcome = "has been authorized"
                   THEN [m EXCEPT !.confirmed = TRUE]
                   ELSE m : m \in outbox }
    /\ reply' = Reply("confirm", r.username, r.outcome,
                      IF tampered THEN <<>> ELSE slug, tampered,
                      r.users # users)
    /\ UNCHANGED <<now, login_vars, requests, traits>>

NextApproval ==
    \/ \E t \in ApprovalTimes : ApprovalTick(t)
    \/ \E username \in Usernames, valid_for \in Validities :
           GenerateApprovalUrl(username, valid_for)
    \/ \E m \in outbox : Confirm(SlugOf(m.url), FALSE)
    \/ \E slug \in TamperedSlugs : Confirm(slug, TRUE)

SpecApproval == InitApproval /\ [][NextApproval]_vars

\* ------------------------------------------------------------- signup
\* Usernames typed into the signup form: the ones above, and two with a
\* character validate_username refuses.
SignupUsernames == RawUsernames \cup {"a b", "a,b"}
\* Passwords typed into the signup form (8, 8, 5 and 11 characters).
PolicyPasswords == {"password", "Password", "short", "Tr0ub4dor&3"}
\* Addresses typed into the signup form; UserInfo accepts both, the
\* pattern of allow_self_approval_for matches those of SelfApprovalEmails.
Emails == {"alice@my-domain.com", "bob@elsewhere.org"}
SelfApprovalEmails == {"alice@my-domain.com"}
\* Values of minimum_password_length explored (1 is the default).
MinimumLengths == {1, 8}
\* Lines of common-credentials.txt.
CommonPasswords == {"password"}

\* `char in username` for the usernames explored.
HasChar(username, char) ==
    <<username, char>> \in {<<"a b", " ">>, <<"a,b", ",">>}

\* validate_username(username); the hub's own rule accepts every name
\* explored.
validate_username(username) ==
    ~(\E char \in {",", " "} : HasChar(username, char))

\* is_password_common(password)
is_password_common(password) == password \in CommonPasswords

\* Variant of is_password_strong: a password of exactly the minimum
\* length is refused (>).
is_password_strong_longer(password) ==
    LET checks == <<Len(password) > minimum_password_length>>
                      \o (IF check_common_password
                          THEN <<~is_password_common(password)>>
                          ELSE <<>>)
    IN  \A i \in 1..Len(checks) : checks[i]

\* is_password_strong(password): all(checks).
is_password_strong(password) ==
    LET checks == <<Len(password) >= minimum_password_length>>
                      \o (IF check_common_password
                          THEN <<~is_password_common(password)>>
                          ELSE <<>>)
    IN  \A i \in 1..Len(checks) : checks[i]

\* Variant of initially_authorized: allowed_users is left out of authed.
initially_authorized_admins_only(username) ==
    open_signup \/ username \in admin_users

\* The is_authorized a new record is built with: True under open_signup or
\* for a username of admin_users or allowed_users, else the column default
\* of UserInfo (False).
initially_authorized(username) ==
    open_signup \/ username \in admin_users \cup allowed_users

\* allow_self_approval_for.match(email)
matches(email) == email \in SelfApprovalEmails

\* The record of an approval URL handed to the mail server at this time.
ApprovalMail(username) ==
    [url |-> generate_approval_url(username, now + ApprovalSeconds),
     issued |-> now, valid_for |-> ApprovalSeconds, confirmed |-> FALSE]

\* Variant of create_user: the user_exists check is left out.
create_user_unchecked(raw, pw, email, has_2fa, mail_ok) ==
    LET username == normalize_username(raw)
        user_info == [password |-> hashpw(pw),
                      is_authorized |-> initially_authorized(username),
                      has_2fa |-> has_2fa,
                      otp_code |-> IF has_2fa THEN "123456" ELSE "none",
                      email |-> email]
        mail == allow_self_approval_for /\ matches(email)
    IN  IF ~is_password_strong(pw) \/ ~validate_username(username)
        THEN [outcome |-> "rejected", users |-> users, sent |-> {}]
        ELSE IF ~enable_signup
        THEN [outcome |-> "disabled", users |-> users, sent |-> {}]
        ELSE IF mail /\ ~mail_ok
        THEN [outcome |-> "SMTPException", users |-> users, sent |-> {}]
        ELSE [outcome |-> "created",
              users |-> [u \in DOMAIN users \cup {username} |->
                            IF u = username THEN user_info ELSE users[u]],
              sent |-> IF mail THEN {ApprovalMail(username)} ELSE {}]

\* create_user(username, pw, email=, has_2fa=): how the call ends ("taken",
\* "rejected", "disabled": it returns None; "SMTPException":
\* send_approval_email raises; "created": it returns the record), the
\* table afterwards and the mails sent.  mail_ok tells whether the mail
\* server takes the message.
create_user(raw, pw, email, has_2fa, mail_ok) ==
    LET username == normalize_username(raw)
        user_info == [password |-> hashpw(pw),
                      is_authorized |-> initially_authorized(username),
                      has_2fa |-> has_2fa,
                      otp_code |-> IF has_2fa THEN "123456" ELSE "none",
                      email |-> email]
        mail == allow_self_approval_for /\ matches(email)
    IN  IF user_exists(username)
        THEN [outcome |-> "taken", users |-> users, sent |-> {}]
        ELSE IF ~is_password_strong(pw) \/ ~validate_username(username)
        THEN [outcome |-> "rejected", users |-> users, sent |-> {}]
        ELSE IF ~enable_signup
        THEN [outcome |-> "disabled", users |-> users, sent |-> {}]
        ELSE IF mail /\ ~mail_ok
        THEN [outcome |-> "SMTPException", users |-> users, sent |-> {}]
        ELSE [outcome |-> "created",
              users |-> [u \in DOMAIN users \cup {username} |->
                            IF u = username THEN user_info ELSE users[u]],
              sent |-> IF mail THEN {ApprovalMail(username)} ELSE {}]

\* The table after delete_user(user) with user.name = name.
delete_user(name) ==
    [u \in DOMAIN users \ {normalize_username(name)} |-> users[u]]

\* Variant of discard_get: delete_user is called whatever
\* user.is_authorized is.
discard_get_unguarded(user_name) ==
    IF user_exists(user_name)
    THEN delete_user(user_name)
    ELSE users

\* The table after GET /discard/<user_name> (DiscardHandler.get).
discard_get(user_name) ==
    IF user_exists(user_name) /\ ~get_user(user_name).is_authorized
    THEN delete_user(user_name)
    ELSE users

\* What a delete request found under the name: no record, a pending record
\* or an authorized one.
Found(name) ==
    IF ~user_exists(name) THEN "absent"
    ELSE IF get_user(name).is_authorized THEN "authorized"
    ELSE "pending"

\* The password policy, the signup switch and the authorization traits at
\* their defaults.
DefaultPolicy == minimum_password_length = 1 /\ check_common_password = FALSE
DefaultAuthorization ==
    /\ open_signup = FALSE
    /\ allow_self_approval_for = FALSE
    /\ allowed_users = {}

\* A fresh installation: an empty users_info table, alice the hub's admin.
\* Every password policy is explored under the default authorization
\* traits and every setting of the authorization traits under the default
\* policy; signup is disabled under the defaults only.
InitSignup ==
    /\ IdleLogin
    /\ users = <<>>
    /\ now = 0
    /\ open_signup \in BOOLEAN
    /\ enable_signup \in BOOLEAN
    /\ allow_self_approval_for \in BOOLEAN
    /\ secret_key = "12345678"
    /\ minimum_password_length \in MinimumLengths
    /\ check_common_password \in BOOLEAN
    /\ admin_users = {"alice"}
    /\ allowed_users \in {{}, {"bob"}}
    /\ DefaultPolicy \/ DefaultAuthorization
    /\ enable_signup \/ (DefaultPolicy /\ DefaultAuthorization)
    /\ init_error = setup_self_approval
    /\ outbox = {}
    /\ reply = NoReply("init")
    /\ requests = {}

\* POST /signup (SignUpHandler.post -> create_user).  The history tells a
\* password refused by the policy from a refused username.
CreateUser(raw, pw, email, mail_ok) ==
    LET r == create_user(raw, pw, email, FALSE, mail_ok) IN
    /\ init_error = None
    /\ users' = r.users
    /\ outbox' = outbox \cup r.sent
    /\ reply' = Reply("create_user", normalize_username(raw),
                      IF r.outcome = "rejected"
                      THEN IF ~is_password_strong(pw)
                           THEN "weak_password"
                           ELSE "invalid_username"
                      ELSE r.outcome,
                      <<>>, FALSE, r.users # users)
    /\ UNCHANGED <<now, login_vars, requests, traits>>

\* GET /discard/<user_name> by an admin.
Discard(user_name) ==
    /\ init_error = None
    /\ users' = discard_get(user_name)
    /\ reply' = Reply("discard", normalize_username(user_name),
                      Found(user_name), <<>>, FALSE,
                      discard_get(user_name) # users)
    /\ UNCHANGED <<now, login_vars, requests, traits, outbox>>

\* delete_user(user), called by the hub when the user is deleted there.
DeleteUser(name) ==
    /\ init_error = None
    /\ users' = delete_user(name)
    /\ reply' = Reply("delete_user", normalize_username(name),
                      Found(name), <<>>, FALSE, delete_user(name) # users)
    /\ UNCHANGED <<now, login_vars, requests, traits, outbox>>

\* GET /authorize/<username> by an admin (ChangeAuthorizationHandler.get),
\* for a username of the table.
ChangeAuthorization(username) ==
    /\ init_error = None
    /\ username \in DOMAIN users
    /\ users' = change_authorization(username)
    /\ reply' = Reply("change_authorization", username,
                      IF users[username].is_authorized
                      THEN "authorized" ELSE "pending",
                      <<>>, FALSE, TRUE)
    /\ UNCHANGED <<now, login_vars, requests, traits, outbox>>

NextSignup ==
    \/ \E raw \in SignupUsernames, pw \in PolicyPasswords,
          email \in Emails, mail_ok \in BOOLEAN :
           CreateUser(raw, pw, email, mail_ok)
    \/ \E user_name \in RawUsernames : Discard(user_name)
    \/ \E name \in RawUsernames : DeleteUser(name)
    \/ \E username \in Usernames : ChangeAuthorization(username)

SpecSignup == InitSignup /\ [][NextSignup]_vars

\* ------------------------------------------- signup requests in flight
\* Number of POST /signup requests received.
MaxRequests == 2

\* The messages of get_result_message.
InUse == "username is already in use"
WentWrong == "Something went wrong"
Successful == "The signup was successful"
SentToAdmin == "Your information has been sent to the admin"

\* get_result_message(user, taken) for a human; user is the outcome of
\* create_user.
get_result_message(user, taken) ==
    IF taken THEN InUse
    ELSE IF user # "created" THEN WentWrong
    ELSE IF open_signup THEN Successful
    ELSE SentToAdmin

\* SignUpHandler.post up to its first await (lines 87-123), with no
\* reCAPTCHA key configured: the answer (404, an unhandled exception or
\* the message rendered), the table afterwards and the mails sent.
signup_post(raw, pw, email, mail_ok) ==
    LET taken == user_exists(raw)
        user == create_user(raw, pw, email, FALSE, mail_ok)
    IN  IF ~enable_signup
        THEN [message |-> "404", users |-> users, sent |-> {}]
        ELSE IF user.outcome = "SMTPException"
        THEN [message |-> "SMTPException", users |-> users, sent |-> {}]
        ELSE [message |-> get_result_message(user.outcome, taken),
              users |-> user.users, sent |-> user.sent]

\* A request as the server holds it: received and waiting for the event
\* loop, or answered with a message.
Request(id, raw, pw, stage, message) ==
    [id |-> id, username |-> raw, pw |-> pw, stage |-> stage,
     message |-> message]

\* A fresh installation with every trait at its default.
InitRace ==
    /\ IdleLogin
    /\ DefaultWorkflow
    /\ users = <<>>
    /\ now = 0

\* A POST /signup request arrives while others may be waiting.
ReceiveSignup(id, raw, pw) ==
    /\ \A r \in requests : r.id # id
    /\ requests' = requests \cup {Request(id, raw, pw, "received", "none")}
    /\ reply' = NoReply("receive")
    /\ UNCHANGED <<users, now, login_vars, traits, outbox>>

\* The event loop runs SignUpHandler.post for one of the waiting requests;
\* the handler does not yield before it has its message.
PostSignup(r) ==
    LET a == signup_post(r.username, r.pw, "bob@elsewhere.org", TRUE) IN
    /\ r.stage = "received"
    /\ users' = a.users
    /\ outbox' = outbox \cup a.sent
    /\ requests' = (requests \ {r}) \cup
           {Request(r.id, r.username, r.pw, "answered", a.message)}
    /\ reply' = Reply("signup", normalize_username(r.username), a.message,
                      <<>>, FALSE, a.users # users)
    /\ UNCHANGED <<now, login_vars, traits>>

NextRace ==
    \/ \E id \in 1..MaxRequests, raw \in RawUsernames, pw \in Passwords :
           ReceiveSignup(id, raw, pw)
    \/ \E r \in requests : PostSignup(r)

SpecRace == InitRace /\ [][NextRace]_vars

\* ------------------------------------------------- account lifecycle
\* A fresh installation with self-approval configured and a secret_key of
\* 8 characters.
InitLifecycle ==
    /\ IdleLogin
    /\ users = <<>>
    /\ now = 0
    /\ open_signup = FALSE
    /\ enable_signup = TRUE
    /\ allow_self_approval_for = TRUE
    /\ secret_key = "12345678"
    /\ minimum_password_length = 1
    /\ check_common_password = FALSE
    /\ admin_users = {}
    /\ allowed_users = {}
    /\ init_error = setup_self_approval
    /\ outbox = {}
    /\ reply = NoReply("init")
    /\ requests = {}

\* A signup whose address the self-approval pattern matches, so that
\* create_user mails an approval URL.
SelfApprovalSignup(raw, mail_ok) ==
    /\ Cardinality(outbox) < MaxUrls
    /\ CreateUser(raw, "Tr0ub4dor&3", "alice@my-domain.com", mail_ok)

NextLifecycle ==
    \/ \E t \in ApprovalTimes : ApprovalTick(t)
    \/ \E raw \in RawUsernames, mail_ok \in BOOLEAN :
           SelfApprovalSignup(raw, mail_ok)
    \/ \E m \in outbox : Confirm(SlugOf(m.url), FALSE)
    \/ \E username \in Usernames : ChangeAuthorization(username)
    \/ \E user_name \in RawUsernames : Discard(user_name)

SpecLifecycle == InitLifecycle /\ [][NextLifecycle]_vars

\* ------------------------------------------------------------ properties
\* The entry of username in a tracker map, or "absent".
EntryIn(attempts, username) ==
    IF username \in DOMAIN attempts THEN attempts[username]
    ELSE [count |-> 0, time |-> 0 - 1]

\* Every entry but that of username is the same before and after the step.
OthersUnchanged(username) ==
    \A u \in Usernames \ {username} :
        EntryIn(login_attempts', u) = EntryIn(login_attempts, u)

\* The step is a call of authenticate() (every action records its call).
IsAuthenticate == last'.op = "authenticate"

\* The credentials presented in the authenticate() step for an existing
\* account are all good: the account is authorized and the password and,
\* with 2FA, the one-time code matched.
GoodCredentials(username) ==
    /\ users[username].is_authorized
    /\ last'.pw_ok

\* The lockout check of authenticate() stops the call.
LockedOut(username) == allowed_failed_logins > 0 /\ is_blocked(username)

\* C1: authenticate returns the normalized username exactly when a record
\* exists for it, the username is not blocked (lockout enabled), the account
\* is authorized, the password matches and, with 2FA, the one-time code is
\* valid; in every other case it returns None.
C1_AcceptIff ==
    [][IsAuthenticate =>
          LET username == last'.username
              ok == /\ username \in DOMAIN users
                    /\ ~LockedOut(username)
                    /\ GoodCredentials(username)
          IN  /\ ok => result' = username
              /\ ~ok => result' = None]_vars

\* An accepted login of a 2FA account with lockout enabled.
C1_Witness ==
    /\ last.op = "authenticate"
    /\ last.path = "accept"
    /\ result = last.username
    /\ allowed_failed_logins > 0
    /\ users[last.username].has_2fa

\* C2: with lockout enabled, authenticate for a blocked username returns
\* None for every password and code, the right ones included, and leaves
\* login_attempts as it was.
C2_BlockedRejects ==
    [][(/\ IsAuthenticate
        /\ allowed_failed_logins > 0
        /\ is_blocked(last'.username)) =>
           /\ result' = None
           /\ login_attempts' = login_attempts]_vars

\* A blocked login that presented good credentials for an authorized account.
C2_Witness ==
    /\ last.op = "authenticate"
    /\ last.path = "blocked"
    /\ users[last.username].is_authorized
    /\ last.pw_ok
    /\ result = None
    /\ login_attempts[last.username].count = last.before

\* C3: authenticate records a failure (count + 1, time = now) exactly when
\* it rejects an existing, not blocked user whose credentials are not all
\* good; for an unknown or a locked-out username login_attempts is unchanged.
C3_RecordsFailure ==
    [][IsAuthenticate =>
          LET username == last'.username
              failed == /\ username \in DOMAIN users
                        /\ ~LockedOut(username)
                        /\ ~GoodCredentials(username)
              recorded == [count |-> CountOf(username) + 1, time |-> now]
          IN  /\ failed =>
                    /\ EntryIn(login_attempts', username) = recorded
                    /\ OthersUnchanged(username)
                    /\ result' = None
              /\ ~failed =>
                    EntryIn(login_attempts', username) # recorded
              /\ (username \notin DOMAIN users \/ LockedOut(username)) =>
                    login_attempts' = login_attempts]_vars

\* A second failure recorded for an account.
C3_Witness ==
    /\ last.op = "authenticate"
    /\ last.path = "failed"
    /\ last.before >= 1
    /\ login_attempts[last.username] =
           [count |-> last.before + 1, time |-> now]
    /\ now > 0

\* C4: an accepted authenticate leaves no entry for the username, so that
\* it is not blocked afterwards, whatever its count was; the entries of the
\* other usernames are unchanged.
C4_AcceptClears ==
    [][\A username \in Usernames :
          (/\ IsAuthenticate
           /\ last'.username = username
           /\ result' = username) =>
              /\ username \notin DOMAIN login_attempts'
              /\ ~is_blocked(username)'
              /\ OthersUnchanged(username)]_vars

\* An accepted login of a username that had reached the threshold, while
\* another username keeps its entry.
C4_Witness ==
    /\ last.op = "authenticate"
    /\ last.path = "accept"
    /\ allowed_failed_logins > 0
    /\ last.before >= allowed_failed_logins
    /\ ~has_attempts(last.username)
    /\ \E u \in Usernames \ {last.username} : has_attempts(u)

\* C5: in every state, authenticate returns the same value, None, for a
\* correct password (and code) of an unauthorized account, for an incorrect
\* password of that account, and for a username that has no account.
C5_SameOutcome ==
    \A raw \in RawUsernames, unknown \in RawUsernames,
       password \in Passwords, wrong \in Passwords, code \in Codes :
        LET username == normalize_username(raw) IN
        (/\ username \in DOMAIN users
         /\ ~users[username].is_authorized
         /\ users[username].password = hashpw(password)
         /\ users[username].password # hashpw(wrong)
         /\ normalize_username(unknown) \notin DOMAIN users) =>
            /\ authenticate_result(raw, password, code) = None
            /\ authenticate_result(raw, wrong, code)
                   = authenticate_result(raw, password, code)
            /\ authenticate_result(unknown, password, code)
                   = authenticate_result(raw, password, code)

\* A login with the correct password that was rejected, and counted as a
\* failure, only because the account is not authorized.
C5_Witness ==
    /\ last.op = "authenticate"
    /\ last.path = "failed"
    /\ ~users[last.username].is_authorized
    /\ last.pw_ok
    /\ result = None

\* The step records a failure for username: a direct add_login_attempt or
\* an authenticate() that reached its last line.
RecordsFailure(username) ==
    /\ last'.username = username
    /\ \/ last'.op = "add_login_attempt"
       \/ last'.op = "authenticate" /\ last'.path = "failed"

\* Seconds between the last recorded failure of username and now.
Elapsed(username) == now - login_attempts[username].time

\* C6: with allowed_failed_logins = N > 0, a username with fewer than N
\* failures recorded since its last success is not blocked, and the call
\* that records the N-th one leaves it blocked at once (elapsed time 0).
C6_BlockedAtThreshold ==
    [][\A username \in Usernames :
          allowed_failed_logins > 0 =>
              /\ failures'[username] < allowed_failed_logins =>
                     ~is_blocked(username)'
              /\ (/\ RecordsFailure(username)
                  /\ failures'[username] = failures[username] + 1
                  /\ failures'[username] = allowed_failed_logins) =>
                     is_blocked(username)']_vars

\* The second of two allowed failures has just been recorded and the
\* username is blocked.
C6_Witness ==
    /\ allowed_failed_logins >= 2
    /\ last.op \in {"add_login_attempt", "authenticate"}
    /\ last.username \in Usernames
    /\ last.before = allowed_failed_logins - 1
    /\ failures[last.username] = allowed_failed_logins
    /\ has_attempts(last.username)
    /\ login_attempts[last.username].time = now
    /\ is_blocked(last.username)

\* C7: a username whose count has reached allowed_failed_logins is not
\* blocked at any time with now - time > seconds_before_next_try, however
\* long after, and is blocked whenever now - time <= seconds_before_next_try.
C7_UnblockedAfterWindow ==
    \A username \in DOMAIN login_attempts :
        (/\ allowed_failed_logins > 0
         /\ login_attempts[username].count >= allowed_failed_logins) =>
            /\ Elapsed(username) > seconds_before_next_try =>
                   ~is_blocked(username)
            /\ Elapsed(username) <= seconds_before_next_try =>
                   is_blocked(username)

\* C8: the clock alone never changes login_attempts, and a rejected login
\* (or a direct add_login_attempt) for a username at the threshold whose
\* window has elapsed keeps its count and leaves it blocked at once.
C8_ElapseKeepsEntry ==
    [][/\ last'.op = "tick" => login_attempts' = login_attempts
       /\ \A username \in DOMAIN login_attempts :
              (/\ allowed_failed_logins > 0
               /\ login_attempts[username].count >= allowed_failed_logins
               /\ Elapsed(username) > seconds_before_next_try
               /\ last'.username = username
               /\ \/ last'.op = "add_login_attempt"
                  \/ /\ last'.op = "authenticate"
                     /\ username \in DOMAIN users
                     /\ result' = None) =>
                  /\ username \in DOMAIN login_attempts'
                  /\ login_attempts'[username].count
                         >= login_attempts[username].count
                  /\ is_blocked(username)']_vars

\* A failed login of a username that was at the threshold with its window
\* elapsed: the failure is recorded on top of the old count and the
\* username is blocked again.
C8_Witness ==
    /\ last.op = "authenticate"
    /\ last.path = "failed"
    /\ allowed_failed_logins > 0
    /\ last.before >= allowed_failed_logins
    /\ login_attempts[last.username] =
           [count |-> last.before + 1, time |-> now]
    /\ is_blocked(last.username)

\* C9 as stated: at the threshold every login is rejected until
\* seconds_before_next_try seconds have passed since the last failure, and
\* a failed login made while the username is blocked (inside that window)
\* moves the time of its entry to now.
C9_BlockedAttemptPushes ==
    [][\A username \in DOMAIN login_attempts :
          (/\ IsAuthenticate
           /\ last'.username = username
           /\ allowed_failed_logins > 0
           /\ login_attempts[username].count >= allowed_failed_logins) =>
              /\ Elapsed(username) <= seconds_before_next_try =>
                     result' = None
              /\ (/\ Elapsed(username) <= seconds_before_next_try
                  /\ username \in DOMAIN users
                  /\ ~GoodCredentials(username)) =>
                     EntryIn(login_attempts', username).time = now]_vars

\* C9 as amended: at the threshold every login is rejected while no more
\* than seconds_before_next_try seconds have passed since the last recorded
\* failure; a login made while the username is blocked is not recorded and
\* leaves its entry, hence the unblock time, unchanged; a failed login made
\* while it is not blocked is recorded and moves the time of its entry to
\* now.
C9_WindowFromLastRecorded ==
    [][\A username \in Usernames :
          (/\ IsAuthenticate
           /\ last'.username = username
           /\ allowed_failed_logins > 0) =>
              /\ (/\ has_attempts(username)
                  /\ login_attempts[username].count >= allowed_failed_logins
                  /\ Elapsed(username) <= seconds_before_next_try) =>
                     result' = None
              /\ is_blocked(username) =>
                     EntryIn(login_attempts', username)
                        = EntryIn(login_attempts, username)
              /\ (/\ username \in DOMAIN users
                  /\ ~is_blocked(username)
                  /\ ~GoodCredentials(username)) =>
                     EntryIn(login_attempts', username).time = now]_vars

\* A failed login made while the username was blocked, later than its last
\* recorded failure: the entry still carries the earlier time.
C9_Witness ==
    /\ last.op = "authenticate"
    /\ last.path = "blocked"
    /\ ~(users[last.username].is_authorized /\ last.pw_ok)
    /\ login_attempts[last.username].time < now
    /\ Elapsed(last.username) <= seconds_before_next_try

\* C10: successful_login leaves no entry for the username, and a failure
\* recorded right after it gives the same entry as the first failure of a
\* username that never failed: count 1 and the time of that failure, with
\* the other entries unchanged.
C10_ClearThenFail ==
    [][\A username \in Usernames :
          /\ (last'.op = "successful_login" /\ last'.username = username) =>
                 username \notin DOMAIN login_attempts'
          /\ (/\ RecordsFailure(username)
              /\ \/ failures[username] = 0
                 \/ /\ last.username = username
                    /\ \/ last.op = "successful_login"
                       \/ last.op = "authenticate" /\ last.path = "accept") =>
                 /\ EntryIn(login_attempts', username)
                        = [count |-> 1, time |-> now]
                 /\ OthersUnchanged(username)]_vars

\* A failure recorded right after a success that removed an entry, at a
\* time later than the start.
C10_Witness ==
    /\ last.op = "add_login_attempt"
    /\ last.after_clear
    /\ now > 0
    /\ login_attempts[last.username] = [count |-> 1, time |-> now]

\* C20: a username has an entry in login_attempts exactly when at least
\* one failure was recorded for it since its last successful login (or
\* since construction); every entry has count >= 1, and a username without
\* failures is not blocked.
C20_EntryIffFailures ==
    \A username \in Usernames :
        /\ has_attempts(username) <=> failures[username] > 0
        /\ has_attempts(username) => login_attempts[username].count >= 1
        /\ failures[username] = 0 => ~is_blocked(username)

\* A login has just cleared the entry of a username that had failed, while
\* another username with recorded failures keeps its entry.
C20_Witness ==
    /\ last.op = "authenticate"
    /\ last.path = "accept"
    /\ last.before > 0
    /\ ~has_attempts(last.username)
    /\ failures[last.username] = 0
    /\ \E u \in Usernames \ {last.username} :
           has_attempts(u) /\ failures[u] > 0

\* The time at which a handed-out URL was generated plus its validity.
ExpiryOf(m) == m.issued + m.valid_for

\* C11 as stated: a URL generated at issued with validity T is accepted by
\* validate_slug at every time before issued + T and refused as expired at
\* every time from issued + T on, that very second included.
C11_ExpiredAtExpiry ==
    \A m \in outbox :
        LET r == validate_slug(SlugOf(m.url), secret_key) IN
        /\ now < ExpiryOf(m) => r.error = None
        /\ now >= ExpiryOf(m) => r.error = "expired"

\* C11 as amended: the URL is accepted at every time up to and including
\* issued + T, and refused as expired at every later time.
C11_ExpiredAfterExpiry ==
    \A m \in outbox :
        LET r == validate_slug(SlugOf(m.url), secret_key) IN
        /\ now <= ExpiryOf(m) =>
               /\ r.error = None
               /\ r.expire = ExpiryOf(m)
        /\ now > ExpiryOf(m) => r.error = "expired"

\* A URL followed exactly at its expiry time has authorized the account.
C11_Witness ==
    /\ reply.op = "confirm"
    /\ ~reply.tampered
    /\ reply.outcome = "has been authorized"
    /\ \E m \in outbox :
           /\ SlugOf(m.url) = reply.slug
           /\ m.issued < now
           /\ now = ExpiryOf(m)

\* C12: every slug that differs in one symbol (of the value, the separator
\* or the signature) from a handed-out one is refused by validate_slug
\* with a bad signature, and a /confirm/ request carrying it answers
\* "Invalid URL" and changes no record.
C12_TamperedRefused ==
    /\ \A slug \in TamperedSlugs :
           /\ validate_slug(slug, secret_key).error = "BadSignature"
           /\ validate_slug(slug, secret_key).username = "none"
    /\ (reply.op = "confirm" /\ reply.tampered) =>
           /\ reply.outcome = "Invalid URL"
           /\ reply.username = "none"
           /\ ~reply.changed

\* A tampered slug has been refused while the URL it was made from is
\* valid and would authorize a pending account.
C12_Witness ==
    /\ reply.op = "confirm"
    /\ reply.tampered
    /\ allow_self_approval_for
    /\ \E m \in outbox :
           LET r == validate_slug(SlugOf(m.url), secret_key) IN
           /\ r.error = None
           /\ r.username \in DOMAIN users
           /\ ~users[r.username].is_authorized

\* C13: with a secret_key of at least 8 characters, validate_slug applied
\* at once to the slug of generate_approval_url(username, now + T) returns
\* that username and that expiry time without error, for every username and
\* every positive T.
C13_RoundTrip ==
    Len(secret_key) >= MinSecretLength =>
        /\ \A username \in Usernames, valid_for \in Validities :
               LET r == validate_slug(
                            SlugOf(generate_approval_url(username,
                                                         now + valid_for)),
                            secret_key)
               IN  /\ r.error = None
                   /\ r.username = username
                   /\ r.expire = now + valid_for
        /\ \A m \in outbox :
               m.issued = now =>
                   validate_slug(SlugOf(m.url), secret_key).error = None

\* A URL followed in the second it was generated has authorized its user.
C13_Witness ==
    /\ Len(secret_key) >= MinSecretLength
    /\ reply.op = "confirm"
    /\ ~reply.tampered
    /\ reply.outcome = "has been authorized"
    /\ \E m \in outbox :
           /\ SlugOf(m.url) = reply.slug
           /\ m.issued = now
           /\ reply.username = loads(reply.slug).username

\* C14: a /confirm/ request with a valid slug for an existing account sets
\* is_authorized from false to true, leaves an authorized account
\* authorized, and changes no other record.
C14_ConfirmIdempotent ==
    [][(/\ reply'.op = "confirm"
        /\ reply'.username \in DOMAIN users) =>
           LET username == reply'.username IN
           /\ DOMAIN users' = DOMAIN users
           /\ users'[username].is_authorized
           /\ \A u \in DOMAIN users \ {username} : users'[u] = users[u]
           /\ users'[username] =
                  [users[username] EXCEPT !.is_authorized = TRUE]
           /\ users[username].is_authorized =>
                  /\ users' = users
                  /\ reply'.outcome = "was already authorized"
           /\ ~users[username].is_authorized =>
                  reply'.outcome = "has been authorized"]_vars

\* A URL that had authorized its user has been followed again.
C14_Witness ==
    /\ reply.op = "confirm"
    /\ reply.outcome = "was already authorized"
    /\ users[reply.username].is_authorized
    /\ \E m \in outbox :
           /\ SlugOf(m.url) = reply.slug
           /\ m.confirmed

C16_PendingKeptOnMailFailure ==
    (reply.op = "create_user" /\ reply.outcome = "SMTPException") =>
        reply.username \in DOMAIN users

\* The record create_user has just added is authorized exactly under
\* open_signup or for a username of admin_users or allowed_users.
CreatedAsConfigured ==
    (reply.op = "create_user" /\ reply.outcome = "created") =>
        /\ reply.username \in DOMAIN users
        /\ users[reply.username].is_authorized <=>
               \/ open_signup
               \/ reply.username \in admin_users \cup allowed_users

\* authenticate returns None for every record that is not authorized,
\* whatever is typed.
PendingRejected ==
    \A raw \in RawUsernames :
        (user_exists(raw) /\ ~get_user(raw).is_authorized) =>
            \A password \in PolicyPasswords, code \in Codes :
                authenticate_result(raw, password, code) = None

\* The is_authorized of a record changes in a change_authorization request
\* for it only.
AuthorizedByActionOnly ==
    \A username \in DOMAIN users \cap DOMAIN users' :
        users'[username].is_authorized # users[username].is_authorized =>
            /\ reply'.op = "change_authorization"
            /\ reply'.username = username

\* C17: a record made by create_user is authorized from the start exactly
\* when open_signup is set or its normalized username is in admin_users or
\* allowed_users; a record that is not authorized makes every authenticate
\* return None, and stays so until an authorization request for it.
C17_InitialAuthorization ==
    /\ [](CreatedAsConfigured /\ PendingRejected)
    /\ [][AuthorizedByActionOnly]_vars

\* bob has signed up and is pending while alice, an admin, was authorized
\* at once.
C17_Witness ==
    /\ reply.op = "create_user"
    /\ reply.outcome = "created"
    /\ ~open_signup
    /\ ~users[reply.username].is_authorized
    /\ \E username \in DOMAIN users : users[username].is_authorized

C19_PasswordPolicy ==
    /\ \A password \in PolicyPasswords :
           is_password_strong(password) <=>
               /\ Len(password) >= minimum_password_length
               /\ ~check_common_password \/ password \notin CommonPasswords
    /\ (minimum_password_length = 8 /\ check_common_password) =>
           /\ ~is_password_strong("password")
           /\ ~is_password_strong("short")
           /\ is_password_strong("Tr0ub4dor&3")
           /\ is_password_strong("Password")
    /\ (reply.op = "create_user" /\ reply.outcome = "weak_password") =>
           ~reply.changed
    /\ \A username \in DOMAIN users :
           \E password \in PolicyPasswords :
               /\ users[username].password = hashpw(password)
               /\ Len(password) >= minimum_password_length
               /\ ~check_common_password \/ password \notin CommonPasswords

\* With length 8 and the check set, a signup has been refused for its
\* password while another, with "Tr0ub4dor&3", has made a record.
C19_Witness ==
    /\ minimum_password_length = 8
    /\ check_common_password
    /\ reply.op = "create_user"
    /\ reply.outcome = "weak_password"
    /\ reply.username \notin DOMAIN users
    /\ \E username \in DOMAIN users :
           users[username].password = hashpw("Tr0ub4dor&3")

\* The answered requests for a username, and those among them that made
\* its record.
Answered(username) ==
    { r \in requests : /\ r.stage = "answered"
                       /\ normalize_username(r.username) = username }
Made(username) ==
    { r \in Answered(username) : r.message \in {SentToAdmin, Successful} }

\* C21: however POST /signup requests for one normalized username arrive
\* and are run, at most one of them makes a record; every other one is
\* answered "username is already in use", and the record stays the one
\* (password hash, is_authorized) the first made.
C21_OneRecordPerUsername ==
    \A username \in Usernames :
        /\ Cardinality(Made(username)) <= 1
        /\ username \in DOMAIN users <=> Made(username) # {}
        /\ \A r \in Answered(username) \ Made(username) : r.message = InUse
        /\ \A r \in Made(username) :
               /\ users[username].password = hashpw(r.pw)
               /\ users[username].is_authorized
                      = initially_authorized(username)

\* Two requests spelling the same username differently, with different
\* passwords, have both been answered.
C21_Witness ==
    /\ reply.op = "signup"
    /\ reply.outcome = InUse
    /\ \E r1 \in requests, r2 \in requests :
           /\ r1.username = "alice" /\ r2.username = "Alice"
           /\ r1.pw # r2.pw
           /\ r1.message = SentToAdmin
           /\ r2.message = InUse
           /\ users["alice"].password = hashpw(r1.pw)

\* C22: a /confirm/ request with a validly signed, unexpired slug ends
\* with "has been authorized", "was already authorized" or "Invalid URL",
\* whatever the users_info table holds, and never with an unhandled
\* exception.
C22_ConfirmNeverCrashes ==
    reply.op = "confirm" =>
        reply.outcome \in {"has been authorized", "was already authorized",
                           "Invalid URL"}

\* C23: once the admin's change of authorization has taken is_authorized
\* of an account from true to false, no request but another change of
\* authorization by the admin makes it true again; a /confirm/ request
\* with an approval URL mailed earlier does not.
C23_RevokedStaysRevoked ==
    [][(/\ reply.op = "change_authorization"
        /\ reply.outcome = "authorized"
        /\ reply.username \in DOMAIN users'
        /\ reply'.op # "change_authorization") =>
           ~users'[reply.username].is_authorized]_vars

TypeOK ==
    /\ DOMAIN login_attempts \subseteq Usernames
    /\ now \in Times
    /\ \A u \in DOMAIN login_attempts :
           /\ login_attempts[u].count \in 1..MaxCount
           /\ login_attempts[u].time \in Times
           /\ login_attempts[u].time <= now

====
